---- MODULE Spec2Model ----
(***************************************************************************)
(* Failover execution engine of sre-multiagent-ai: execute_failover and    *)
(* rollback_failover (src/agents/failover_agent.py) driving the Apollo     *)
(* Router admin client (src/tools/failover_tools.py).                      *)
(*                                                                         *)
(* Python dicts are TLA+ functions, lists are sequences, and each blocking *)
(* call of the router client is one step of an invocation.                 *)
(***************************************************************************)
EXTENDS Integers, Sequences, FiniteSets, TLC

(***************************************************************************)
(* Bounds of the model.                                                    *)
(***************************************************************************)
MaxTime == 400
MaxCalls == 3

(***************************************************************************)
(* Program constants and the values the inputs are drawn from.             *)
(***************************************************************************)
FAILOVER_RATE_LIMIT_SECONDS == 300
PropagationDelay == 2

Procs == {1, 2}
Services == {"orders", "payments"}
\* The service whose traffic the caller of the sequential runs fails over.
FailoverServices == {"orders"}
Urls == {"A", "B", "C"}
UrlOrder == <<"A", "B", "C">>
WeightValues == {-50, 0, 50, 100, 150}
\* The seconds the caller may wait between invocations, and the seconds one
\* health probe may take (its timeout is 5).
TickSteps == {299}
ProbeSeconds == {0, 1}
HealthStatus == {"healthy", "unhealthy", "unreachable"}

EmptyDict == << >>

\* Registry of config.applications: the backends that are valid failover
\* targets of each service; an unknown service has none.
Registry == [orders |-> {"A", "B"}, payments |-> {"C"}]

get_service_backends(svc) == IF svc \in DOMAIN Registry THEN Registry[svc] ELSE {}

get_valid_backends_for_service(svc) == get_service_backends(svc)

\* The target distributions a caller may pass: over A and B (one of each pair
\* of mirrored distributions), over a backend of another service, and none.
TargetWeights ==
    {w \in [{"A", "B"} -> WeightValues] : w["A"] >= w["B"]}
        \cup [{"C"} -> {0, 100}] \cup [{"B", "C"} -> {0, 100}] \cup {EmptyDict}

(***************************************************************************)
(* Error texts of the failure results, named after the failure reasons.    *)
(***************************************************************************)
InvalidBackend == "Invalid backend for service"
InvalidWeightTotal == "Weights must sum to 100%"
UnhealthyBackend == "Cannot route traffic to unhealthy backend"
IncompatibleBackend == "Backend has incompatible GraphQL schema"
RateLimited == "Rate limit: Wait before next failover"
ApplyFailed == "Failed to update Apollo Router configuration"
VerificationFailed == "Configuration verification failed. Automatic rollback executed."
NoRollbackAvailable == "No rollback configuration available"
RollbackFailed == "Failed to execute rollback"
KeyError == "KeyError"

(***************************************************************************)
(* Dict and list helpers.                                                  *)
(***************************************************************************)
Max(a, b) == IF a >= b THEN a ELSE b

\* dict.get(key, default)
Get(d, k, default) == IF k \in DOMAIN d THEN d[k] ELSE default

\* d[k] = v
Put(d, k, v) == [x \in DOMAIN d \cup {k} |-> IF x = k THEN v ELSE d[x]]

\* The keys of a dict in iteration order.
Keys(d) == SelectSeq(UrlOrder, LAMBDA u : u \in DOMAIN d)

RECURSIVE SumSeq(_, _)
SumSeq(d, ks) == IF ks = <<>> THEN 0 ELSE d[Head(ks)] + SumSeq(d, Tail(ks))

\* sum(backend_weights.values())
total_weight(weights) == SumSeq(weights, Keys(weights))

\* The routing.backends list update_backend_weights sends for a dict.
BackendList(weights) ==
    LET ks == Keys(weights)
    IN  [i \in 1..Len(ks) |-> [url |-> ks[i], weight |-> weights[ks[i]]]]

\* {backend["url"]: backend.get("weight", 0) for backend in backends}
WeightDict(backends) ==
    [u \in {backends[i].url : i \in DOMAIN backends} |->
        LET last == CHOOSE i \in DOMAIN backends :
                        /\ backends[i].url = u
                        /\ \A j \in DOMAIN backends : backends[j].url = u => j <= i
        IN  Get(backends[last], "weight", 0)]

extract_weights_from_config(config) ==
    WeightDict(Get(Get(config, "routing", EmptyDict), "backends", <<>>))

verify_schema_compatibility(svc, url) == TRUE

\* Mutant: only the backend urls are compared, not their weights.
verify_configuration_match_Urls(requested_weights, applied_backends) ==
    DOMAIN requested_weights = DOMAIN WeightDict(applied_backends)

verify_configuration_match(requested_weights, applied_backends) ==
    requested_weights = WeightDict(applied_backends)

(***************************************************************************)
(* The checks of execute_failover, steps 1 to 5.                           *)
(***************************************************************************)
\* Mutant: a key passes when any service registers it.
InvalidKeys_AnyService(svc, weights) ==
    {u \in DOMAIN weights : \A s \in DOMAIN Registry : u \notin Registry[s]}

\* Mutant: the keys are looked at only once the total is right.
InvalidKeys_AfterSum(svc, weights) ==
    IF total_weight(weights) # 100 THEN {}
    ELSE {u \in DOMAIN weights : u \notin get_valid_backends_for_service(svc)}

\* Step 1: the keys that are no valid backend of the service.
InvalidKeys(svc, weights) ==
    {u \in DOMAIN weights : u \notin get_valid_backends_for_service(svc)}

\* Mutant: only a total above 100 is refused.
WeightTotalOk_AtMost(weights) == total_weight(weights) <= 100

\* Step 2
WeightTotalOk(weights) == total_weight(weights) = 100

\* Mutant: every backend is probed a second time.
ProbeList_Twice(weights) ==
    SelectSeq(Keys(weights), LAMBDA u : weights[u] > 0)
        \o SelectSeq(Keys(weights), LAMBDA u : weights[u] > 0)

\* Mutant: every backend of the target is probed.
ProbeList_All(weights) == Keys(weights)

\* Step 3: the backends probed, in order.
ProbeList(weights) == SelectSeq(Keys(weights), LAMBDA u : weights[u] > 0)

\* Mutant: only an unreachable backend is refused.
IsHealthy_Reachable(status) == status # "unreachable"

IsHealthy(status) == status = "healthy"

\* Step 4
SchemaOk(svc, weights) ==
    \A u \in DOMAIN weights : weights[u] > 0 => verify_schema_compatibility(svc, u)

\* Mutant: a failover exactly one window after the last is still refused.
InCooldown_Inclusive(last_failover, now) ==
    last_failover # 0 /\ (now - last_failover) <= FAILOVER_RATE_LIMIT_SECONDS

\* Step 5
InCooldown(last_failover, now) ==
    last_failover # 0 /\ (now - last_failover) < FAILOVER_RATE_LIMIT_SECONDS

(***************************************************************************)
(* Results.                                                                *)
(***************************************************************************)
NoResult == [pending |-> TRUE]
Failure(reason) == [success |-> FALSE, error |-> reason]
Raised(exc) == [exception |-> exc]
\* Mutant: the two distributions of the success result are swapped.
FailoverSuccess_Swapped(svc, prev, new) ==
    [success |-> TRUE, service |-> svc, previous_config |-> new,
     new_config |-> prev, message |-> "Successfully failed over"]

FailoverSuccess(svc, prev, new) ==
    [success |-> TRUE, service |-> svc, previous_config |-> prev,
     new_config |-> new, message |-> "Successfully failed over"]
RollbackSuccess(svc, weights) ==
    [success |-> TRUE, service |-> svc,
     message |-> "Successfully rolled back", configuration |-> weights]

VARIABLES
    clock,              \* time.time()
    router,             \* the control plane: routing.backends of each service
    _failover_history,  \* service -> time of the last recorded failover
    _rollback_configs,  \* service -> configuration stored for rollback
    pc,                 \* position of each invocation
    op,                 \* the operation each invocation runs
    service,            \* its service argument
    backend_weights,    \* its backend_weights argument
    pending,            \* backends still to probe in step 3
    current_config,     \* the local current_config of step 6
    wake,               \* when the sleep of step 8 ends
    result,             \* the value returned (or the exception raised)
    calls,              \* the router client calls the invocation has made
    entry,              \* the time and the control plane at its entry
    last_call,          \* the invocation that returned last
    ncalls              \* invocations started so far

vars == <<clock, router, _failover_history, _rollback_configs, pc, op, service,
          backend_weights, pending, current_config, wake, result, calls, entry,
          last_call, ncalls>>

store == <<_failover_history, _rollback_configs>>

NoEntry == [time |-> 0, backends |-> <<>>, last_failover |-> 0]
NoCall == [op |-> "none", service |-> "none", success |-> FALSE,
           weights |-> EmptyDict, backends |-> <<>>]

InitialBackends ==
    [orders |-> BackendList([u \in {"A", "B"} |-> IF u = "A" THEN 100 ELSE 0]),
     payments |-> BackendList([u \in {"C"} |-> 100])]

Init ==
    /\ clock = 1
    /\ router = InitialBackends
    /\ _failover_history = EmptyDict
    /\ _rollback_configs = EmptyDict
    /\ pc = [p \in Procs |-> "idle"]
    /\ op = [p \in Procs |-> "none"]
    /\ service = [p \in Procs |-> "none"]
    /\ backend_weights = [p \in Procs |-> EmptyDict]
    /\ pending = [p \in Procs |-> <<>>]
    /\ current_config = [p \in Procs |-> EmptyDict]
    /\ wake = [p \in Procs |-> 0]
    /\ result = [p \in Procs |-> NoResult]
    /\ calls = [p \in Procs |-> <<>>]
    /\ entry = [p \in Procs |-> NoEntry]
    /\ last_call = NoCall
    /\ ncalls = 0

(***************************************************************************)
(* The router client (ApolloRouterClient) and the control plane behind it. *)
(***************************************************************************)
\* A write is applied and answered 200 ("ok"), answered 200 without taking
\* effect ("stale"), or refused or failed in transport ("rejected").
WriteOutcomes == {"ok", "stale", "rejected"}

\* What update_backend_weights returns.
update_backend_weights(outcome) == outcome \in {"ok", "stale"}

\* What the control plane holds after the PUT.
RouterAfterWrite(svc, weights, outcome) ==
    IF outcome = "ok"
    THEN [router EXCEPT ![svc] = BackendList(weights)]
    ELSE router

\* What get_current_configuration returns: the JSON document of the control
\* plane, or the error object on a transport failure.
get_current_configuration(svc, ok) ==
    IF ok THEN [routing |-> [backends |-> router[svc]]]
    ELSE [error |-> "RequestException"]

\* Mutant: one failover time is kept for all services.
get_last_failover_time_Global(svc) ==
    LET times == {_failover_history[s] : s \in DOMAIN _failover_history}
    IN  IF times = {} THEN 0 ELSE CHOOSE t \in times : \A u \in times : u <= t

get_last_failover_time(svc) == Get(_failover_history, svc, 0)

\* Mutant: the first snapshot taken for a service is kept.
store_rollback_config_KeepFirst(svc, config) ==
    IF svc \in DOMAIN _rollback_configs THEN _rollback_configs
    ELSE Put(_rollback_configs, svc, config)

store_rollback_config(svc, config) == Put(_rollback_configs, svc, config)

record_failover_event(svc, now) == Put(_failover_history, svc, now)

\* The entries of the record of calls an invocation has made.
ProbeCall(url, status) ==
    [fn |-> "check_backend_health", url |-> url, status |-> status]
RateCall(svc, last_failover, now) ==
    [fn |-> "get_last_failover_time", service |-> svc, ret |-> last_failover, now |-> now]
ReadCall(svc, config) ==
    [fn |-> "get_current_configuration", service |-> svc, ret |-> config]
WriteCall(svc, weights, success) ==
    [fn |-> "update_backend_weights", service |-> svc, weights |-> weights, ret |-> success]

(***************************************************************************)
(* Invocations.                                                            *)
(***************************************************************************)
\* Mutant: an invocation starts only when no other is running.
CanStart_Exclusive(p) ==
    /\ pc[p] = "idle"
    /\ \A q \in Procs : pc[q] = "idle"
    /\ ncalls < MaxCalls

CanStart(p) ==
    /\ pc[p] = "idle"
    /\ \A q \in Procs : q < p => pc[q] # "idle"
    /\ ncalls < MaxCalls

Sequential == \A q \in Procs : pc[q] = "idle"

EntryOf(svc) ==
    [time |-> clock, backends |-> Get(router, svc, <<>>),
     last_failover |-> Get(_failover_history, svc, 0)]

Finish(p, res) ==
    /\ pc' = [pc EXCEPT ![p] = "done"]
    /\ result' = [result EXCEPT ![p] = res]

\* execute_failover, entry and steps 1 and 2.
ExecuteFailover(p, svc, weights) ==
    /\ CanStart(p)
    /\ ncalls' = ncalls + 1
    /\ op' = [op EXCEPT ![p] = "execute_failover"]
    /\ service' = [service EXCEPT ![p] = svc]
    /\ backend_weights' = [backend_weights EXCEPT ![p] = weights]
    /\ entry' = [entry EXCEPT ![p] = EntryOf(svc)]
    /\ IF InvalidKeys(svc, weights) # {}
       THEN /\ Finish(p, Failure(InvalidBackend))
            /\ UNCHANGED pending
       ELSE IF ~WeightTotalOk(weights)
       THEN /\ Finish(p, Failure(InvalidWeightTotal))
            /\ UNCHANGED pending
       ELSE /\ pending' = [pending EXCEPT ![p] = ProbeList(weights)]
            /\ pc' = [pc EXCEPT ![p] =
                        IF ProbeList(weights) = <<>> THEN "ratelimit" ELSE "health"]
            /\ UNCHANGED result
    /\ UNCHANGED <<clock, router, store, current_config, wake, calls, last_call>>

\* Step 3, one probe.
CheckHealth(p, status, d) ==
    /\ pc[p] = "health"
    /\ clock' = clock + d
    /\ calls' = [calls EXCEPT ![p] = Append(@, ProbeCall(Head(pending[p]), status))]
    /\ pending' = [pending EXCEPT ![p] = Tail(@)]
    /\ IF ~IsHealthy(status)
       THEN Finish(p, Failure(UnhealthyBackend))
       ELSE /\ pc' = [pc EXCEPT ![p] =
                        IF Tail(pending[p]) = <<>> THEN "ratelimit" ELSE "health"]
            /\ UNCHANGED result
    /\ UNCHANGED <<router, store, op, service, backend_weights,
                   current_config, wake, entry, last_call, ncalls>>

\* Mutant: a rate-limited attempt restarts the cooldown window.
CheckRateLimit_ExtendsCooldown(p) ==
    /\ pc[p] = "ratelimit"
    /\ calls' = [calls EXCEPT ![p] =
                    IF ~SchemaOk(service[p], backend_weights[p]) THEN @
                    ELSE Append(@, RateCall(service[p],
                                            get_last_failover_time(service[p]), clock))]
    /\ IF ~SchemaOk(service[p], backend_weights[p])
       THEN /\ Finish(p, Failure(IncompatibleBackend))
            /\ UNCHANGED _failover_history
       ELSE IF InCooldown(get_last_failover_time(service[p]), clock)
       THEN /\ Finish(p, Failure(RateLimited))
            /\ _failover_history' = Put(_failover_history, service[p], clock)
       ELSE /\ pc' = [pc EXCEPT ![p] = "snapshot"]
            /\ UNCHANGED <<result, _failover_history>>
    /\ UNCHANGED <<clock, router, _rollback_configs, op, service, backend_weights,
                   pending, current_config, wake, entry, last_call, ncalls>>

\* Steps 4 and 5.
CheckRateLimit(p) ==
    /\ pc[p] = "ratelimit"
    /\ calls' = [calls EXCEPT ![p] =
                    IF ~SchemaOk(service[p], backend_weights[p]) THEN @
                    ELSE Append(@, RateCall(service[p],
                                            get_last_failover_time(service[p]), clock))]
    /\ IF ~SchemaOk(service[p], backend_weights[p])
       THEN Finish(p, Failure(IncompatibleBackend))
       ELSE IF InCooldown(get_last_failover_time(service[p]), clock)
       THEN Finish(p, Failure(RateLimited))
       ELSE /\ pc' = [pc EXCEPT ![p] = "snapshot"]
            /\ UNCHANGED result
    /\ UNCHANGED <<clock, router, store, op, service, backend_weights, pending,
                   current_config, wake, entry, last_call, ncalls>>

\* Step 6.
Snapshot(p, ok) ==
    /\ pc[p] = "snapshot"
    /\ LET config == get_current_configuration(service[p], ok)
       IN  /\ current_config' = [current_config EXCEPT ![p] = config]
           /\ _rollback_configs' = store_rollback_config(service[p], config)
           /\ calls' = [calls EXCEPT ![p] = Append(@, ReadCall(service[p], config))]
    /\ pc' = [pc EXCEPT ![p] = "apply"]
    /\ UNCHANGED <<clock, router, _failover_history, op, service, backend_weights,
                   pending, wake, result, entry, last_call, ncalls>>

\* Mutant: the failover time is recorded when the write is issued.
Apply_RecordsAttempt(p, outcome) ==
    /\ pc[p] = "apply"
    /\ router' = RouterAfterWrite(service[p], backend_weights[p], outcome)
    /\ _failover_history' = Put(_failover_history, service[p], clock)
    /\ calls' = [calls EXCEPT ![p] =
                    Append(@, WriteCall(service[p], backend_weights[p],
                                        update_backend_weights(outcome)))]
    /\ IF ~update_backend_weights(outcome)
       THEN /\ Finish(p, Failure(ApplyFailed))
            /\ UNCHANGED wake
       ELSE /\ pc' = [pc EXCEPT ![p] = "verify"]
            /\ wake' = [wake EXCEPT ![p] = clock + PropagationDelay]
            /\ UNCHANGED result
    /\ UNCHANGED <<clock, _rollback_configs, op, service, backend_weights, pending,
                   current_config, entry, last_call, ncalls>>

\* Step 7, and the start of the sleep of step 8.
Apply(p, outcome) ==
    /\ pc[p] = "apply"
    /\ router' = RouterAfterWrite(service[p], backend_weights[p], outcome)
    /\ calls' = [calls EXCEPT ![p] =
                    Append(@, WriteCall(service[p], backend_weights[p],
                                        update_backend_weights(outcome)))]
    /\ IF ~update_backend_weights(outcome)
       THEN /\ Finish(p, Failure(ApplyFailed))
            /\ UNCHANGED wake
       ELSE /\ pc' = [pc EXCEPT ![p] = "verify"]
            /\ wake' = [wake EXCEPT ![p] = clock + PropagationDelay]
            /\ UNCHANGED result
    /\ UNCHANGED <<clock, store, op, service, backend_weights, pending,
                   current_config, entry, last_call, ncalls>>

\* The end of the sleep, the re-read and the comparison of step 8, and
\* step 9 when they match.
Verify(p, ok) ==
    /\ pc[p] = "verify"
    /\ clock' = Max(clock, wake[p])
    /\ LET new_config == get_current_configuration(service[p], ok)
       IN  /\ calls' = [calls EXCEPT ![p] = Append(@, ReadCall(service[p], new_config))]
           /\ IF "routing" \notin DOMAIN new_config
              THEN /\ Finish(p, Raised(KeyError))
                   /\ UNCHANGED _failover_history
              ELSE IF verify_configuration_match(backend_weights[p],
                                                 new_config["routing"]["backends"])
              THEN /\ _failover_history' = record_failover_event(service[p], clock')
                   /\ Finish(p, FailoverSuccess(service[p],
                                   extract_weights_from_config(current_config[p]),
                                   backend_weights[p]))
              ELSE /\ pc' = [pc EXCEPT ![p] = "auto_rollback"]
                   /\ UNCHANGED <<result, _failover_history>>
    /\ UNCHANGED <<router, _rollback_configs, op, service, backend_weights, pending,
                   current_config, wake, entry, last_call, ncalls>>

\* Mutant: a refused rollback write is reported as a failed rollback.
AutoRollback_Inspects(p, outcome) ==
    /\ pc[p] = "auto_rollback"
    /\ LET weights == extract_weights_from_config(current_config[p])
       IN  /\ router' = RouterAfterWrite(service[p], weights, outcome)
           /\ calls' = [calls EXCEPT ![p] =
                           Append(@, WriteCall(service[p], weights,
                                               update_backend_weights(outcome)))]
    /\ IF update_backend_weights(outcome)
       THEN Finish(p, Failure(VerificationFailed))
       ELSE Finish(p, Failure(RollbackFailed))
    /\ UNCHANGED <<clock, store, op, service, backend_weights, pending,
                   current_config, wake, entry, last_call, ncalls>>

\* The automatic rollback after a failed verification.
AutoRollback(p, outcome) ==
    /\ pc[p] = "auto_rollback"
    /\ LET weights == extract_weights_from_config(current_config[p])
       IN  /\ router' = RouterAfterWrite(service[p], weights, outcome)
           /\ calls' = [calls EXCEPT ![p] =
                           Append(@, WriteCall(service[p], weights,
                                               update_backend_weights(outcome)))]
    /\ Finish(p, Failure(VerificationFailed))
    /\ UNCHANGED <<clock, store, op, service, backend_weights, pending,
                   current_config, wake, entry, last_call, ncalls>>

\* Mutant: a snapshot is only honoured outside the cooldown window.
HasRollbackConfig_OutsideCooldown(svc) ==
    /\ svc \in DOMAIN _rollback_configs
    /\ ~InCooldown(Get(_failover_history, svc, 0), clock)

\* Mutant: any stored snapshot counts, whichever service it belongs to.
HasRollbackConfig_Any(svc) == _rollback_configs # EmptyDict

\* service in _rollback_configs
HasRollbackConfig(svc) == svc \in DOMAIN _rollback_configs

\* Mutant: the snapshot is consumed by the rollback that restores it.
RollbackFailover_Consumes(p, svc, outcome) ==
    /\ CanStart(p)
    /\ ncalls' = ncalls + 1
    /\ op' = [op EXCEPT ![p] = "rollback_failover"]
    /\ service' = [service EXCEPT ![p] = svc]
    /\ entry' = [entry EXCEPT ![p] = EntryOf(svc)]
    /\ IF ~HasRollbackConfig(svc)
       THEN /\ Finish(p, Failure(NoRollbackAvailable))
            /\ UNCHANGED <<router, calls, _rollback_configs>>
       ELSE LET rollback_config == Get(_rollback_configs, svc, EmptyDict)
                rollback_weights == extract_weights_from_config(rollback_config)
            IN  /\ router' = RouterAfterWrite(svc, rollback_weights, outcome)
                /\ calls' = [calls EXCEPT ![p] =
                                Append(@, WriteCall(svc, rollback_weights,
                                                    update_backend_weights(outcome)))]
                /\ _rollback_configs' =
                      [s \in DOMAIN _rollback_configs \ {svc} |-> _rollback_configs[s]]
                /\ IF ~update_backend_weights(outcome)
                   THEN Finish(p, Failure(RollbackFailed))
                   ELSE Finish(p, RollbackSuccess(svc, rollback_weights))
    /\ UNCHANGED <<clock, _failover_history, backend_weights, pending,
                   current_config, wake, last_call>>

\* rollback_failover
RollbackFailover(p, svc, outcome) ==
    /\ CanStart(p)
    /\ ncalls' = ncalls + 1
    /\ op' = [op EXCEPT ![p] = "rollback_failover"]
    /\ service' = [service EXCEPT ![p] = svc]
    /\ entry' = [entry EXCEPT ![p] = EntryOf(svc)]
    /\ IF ~HasRollbackConfig(svc)
       THEN /\ Finish(p, Failure(NoRollbackAvailable))
            /\ UNCHANGED <<router, calls>>
       ELSE LET rollback_config == Get(_rollback_configs, svc, EmptyDict)
                rollback_weights == extract_weights_from_config(rollback_config)
            IN  /\ router' = RouterAfterWrite(svc, rollback_weights, outcome)
                /\ calls' = [calls EXCEPT ![p] =
                                Append(@, WriteCall(svc, rollback_weights,
                                                    update_backend_weights(outcome)))]
                /\ IF ~update_backend_weights(outcome)
                   THEN Finish(p, Failure(RollbackFailed))
                   ELSE Finish(p, RollbackSuccess(svc, rollback_weights))
    /\ UNCHANGED <<clock, store, backend_weights, pending, current_config, wake, last_call>>

Succeeded(p) == "success" \in DOMAIN result[p] /\ result[p].success

\* What is remembered of the invocation that returned last: of a success, the
\* distribution it wrote and what the control plane held at its entry.
Returned(p) ==
    [op |-> op[p], service |-> service[p], success |-> Succeeded(p),
     weights |-> IF ~Succeeded(p) THEN EmptyDict
                 ELSE IF op[p] = "execute_failover" THEN result[p].new_config
                 ELSE result[p].configuration,
     backends |-> IF Succeeded(p) THEN entry[p].backends ELSE <<>>]

\* The invocation has returned to its caller.
Return(p) ==
    /\ pc[p] = "done"
    /\ last_call' = Returned(p)
    /\ pc' = [pc EXCEPT ![p] = "idle"]
    /\ op' = [op EXCEPT ![p] = "none"]
    /\ service' = [service EXCEPT ![p] = "none"]
    /\ backend_weights' = [backend_weights EXCEPT ![p] = EmptyDict]
    /\ pending' = [pending EXCEPT ![p] = <<>>]
    /\ current_config' = [current_config EXCEPT ![p] = EmptyDict]
    /\ wake' = [wake EXCEPT ![p] = 0]
    /\ result' = [result EXCEPT ![p] = NoResult]
    /\ calls' = [calls EXCEPT ![p] = <<>>]
    /\ entry' = [entry EXCEPT ![p] = NoEntry]
    /\ UNCHANGED <<clock, router, store, ncalls>>

\* Time passes between invocations.
Tick(d) ==
    /\ \A q \in Procs : pc[q] = "idle"
    /\ clock + d <= MaxTime
    /\ clock' = clock + d
    /\ UNCHANGED <<router, store, pc, op, service, backend_weights, pending,
                   current_config, wake, result, calls, entry, last_call, ncalls>>

Step(p) ==
    \/ \E status \in HealthStatus, d \in ProbeSeconds : CheckHealth(p, status, d)
    \/ CheckRateLimit(p)
    \/ \E ok \in BOOLEAN : Snapshot(p, ok)
    \/ \E outcome \in WriteOutcomes : Apply(p, outcome)
    \/ \E ok \in BOOLEAN : Verify(p, ok)
    \/ \E outcome \in WriteOutcomes : AutoRollback(p, outcome)
    \/ Return(p)

\* One caller: an invocation starts when the one before it has returned.
Next ==
    \/ \E p \in Procs, svc \in FailoverServices, weights \in TargetWeights :
          Sequential /\ ExecuteFailover(p, svc, weights)
    \/ \E p \in Procs, svc \in Services, outcome \in WriteOutcomes :
          Sequential /\ RollbackFailover(p, svc, outcome)
    \/ \E p \in Procs : Step(p)
    \/ \E d \in TickSteps : Tick(d)

Spec == Init /\ [][Next]_vars

(***************************************************************************)
(* Progress: every call of the router client returns, with an answer or a  *)
(* failure, within its timeout, and the sleep of step 8 ends, so an        *)
(* invocation that can take its next step takes it.                        *)
(***************************************************************************)
Fairness == \A p \in Procs : WF_vars(Step(p))

SpecLive == Init /\ [][Next]_vars /\ Fairness

(***************************************************************************)
(* Overlapping invocations: a caller may start an invocation while another *)
(* is still running.  The module has no lock and every call of the router  *)
(* client blocks, so the steps of two invocations interleave at the calls. *)
(* Probes answer at once and the router answers every read with a          *)
(* document; writes may be refused.  The error object of a failed read is   *)
(* followed under Spec.                                                     *)
(***************************************************************************)
\* The targets of overlapping invocations: two distributions for orders and
\* one for payments, each a valid target of its service.
ConcurrentTargets ==
    {[u \in {"A", "B"} |-> 50],
     [u \in {"A", "B"} |-> IF u = "B" THEN 100 ELSE 0],
     [u \in {"C"} |-> 100]}

ConcurrentHealth == {"healthy", "unhealthy"}
ConcurrentOutcomes == {"ok", "rejected"}

StepConcurrent(p) ==
    \/ \E status \in ConcurrentHealth : CheckHealth(p, status, 0)
    \/ CheckRateLimit(p)
    \/ Snapshot(p, TRUE)
    \/ \E outcome \in ConcurrentOutcomes : Apply(p, outcome)
    \/ Verify(p, TRUE)
    \/ \E outcome \in ConcurrentOutcomes : AutoRollback(p, outcome)
    \/ Return(p)

NextConcurrent ==
    \/ \E p \in Procs, svc \in Services :
          \E weights \in {w \in ConcurrentTargets : DOMAIN w = Registry[svc]} :
              ExecuteFailover(p, svc, weights)
    \/ \E p \in Procs, svc \in Services, outcome \in ConcurrentOutcomes :
          RollbackFailover(p, svc, outcome)
    \/ \E p \in Procs : StepConcurrent(p)
    \/ \E d \in TickSteps : Tick(d)

SpecConcurrent == Init /\ [][NextConcurrent]_vars

(***************************************************************************)
(* Vocabulary of the properties.                                           *)
(***************************************************************************)
Done(p) == pc[p] = "done"
IsExecute(p) == op[p] = "execute_failover"
IsRollback(p) == op[p] = "rollback_failover"

FailedWith(p, reason) ==
    /\ "error" \in DOMAIN result[p]
    /\ ~result[p].success
    /\ result[p].error = reason

CallsOf(p, fn) == SelectSeq(calls[p], LAMBDA c : c.fn = fn)
Probes(p) == CallsOf(p, "check_backend_health")
RateChecks(p) == CallsOf(p, "get_last_failover_time")
Reads(p) == CallsOf(p, "get_current_configuration")
Writes(p) == CallsOf(p, "update_backend_weights")

RECURSIVE SumOver(_, _)
SumOver(w, S) ==
    IF S = {} THEN 0
    ELSE LET u == CHOOSE x \in S : TRUE IN w[u] + SumOver(w, S \ {u})

KeysRegistered(p) == DOMAIN backend_weights[p] \subseteq Registry[service[p]]
SumOfTarget(p) == SumOver(backend_weights[p], DOMAIN backend_weights[p])

\* Every probe the invocation made answered healthy.
ProbedHealthy(p) ==
    \A i \in DOMAIN Probes(p) : Probes(p)[i].status = "healthy"

\* The rate-limit check, if the invocation made it, found the service
\* outside its cooldown window.
OutsideCooldown(p) ==
    \A i \in DOMAIN RateChecks(p) :
        LET c == RateChecks(p)[i]
        IN  c.ret = 0 \/ c.now - c.ret >= FAILOVER_RATE_LIMIT_SECONDS

\* The configuration document shows exactly the distribution w.
Shows(config, w) ==
    /\ "routing" \in DOMAIN config
    /\ LET bs == config.routing.backends
       IN  /\ {bs[i].url : i \in DOMAIN bs} = DOMAIN w
           /\ \A i \in DOMAIN bs : bs[i].weight = w[bs[i].url]

\* The router accepted every write the invocation issued and its re-read,
\* if made, showed the target distribution.
RouterCooperates(p) ==
    /\ \A i \in DOMAIN Writes(p) : Writes(p)[i].ret
    /\ Len(Reads(p)) >= 2 => Shows(Reads(p)[2].ret, backend_weights[p])

\* The invocation is an otherwise valid execute_failover: registered keys,
\* total 100, and every probe healthy.
OtherwiseValid(p) ==
    IsExecute(p) /\ KeysRegistered(p) /\ SumOfTarget(p) = 100 /\ ProbedHealthy(p)

\* Every weight of the target is a percentage.
Percentages(p) == \A u \in DOMAIN backend_weights[p] : backend_weights[p][u] \in 0..100

\* C1, as claimed: a target with registered keys, total 100 and healthy
\* backends always succeeds with new_config equal to the target.
C1_AsClaimed ==
    \A p \in Procs :
        (Done(p) /\ OtherwiseValid(p) /\ Percentages(p))
        => (Succeeded(p) /\ result[p].new_config = backend_weights[p])

\* C1, amended: a target with registered keys, total 100 and healthy
\* backends succeeds with new_config equal to the target when the service is
\* outside its cooldown window, the router accepts the write and the re-read
\* shows the target.
C1_SuccessOnValidTarget ==
    \A p \in Procs :
        (Done(p) /\ OtherwiseValid(p) /\ OutsideCooldown(p) /\ RouterCooperates(p))
        => (Succeeded(p) /\ result[p].new_config = backend_weights[p])

C1_Witness ==
    \E p \in Procs :
        /\ Done(p) /\ IsExecute(p) /\ Succeeded(p)
        /\ Len(Probes(p)) >= 1 /\ Len(Writes(p)) = 1 /\ Len(Reads(p)) = 2
        /\ result[p].new_config = backend_weights[p]
        /\ BackendList(backend_weights[p]) # entry[p].backends

\* C2, as claimed: every target whose total is not 100 fails with
\* InvalidWeightTotal and no write is issued.
C2_AsClaimed ==
    \A p \in Procs :
        (IsExecute(p) /\ SumOfTarget(p) # 100)
        => (Done(p) /\ FailedWith(p, InvalidWeightTotal) /\ Writes(p) = <<>>)

\* C2, amended: every target whose keys are all registered and whose total is
\* not 100 fails with InvalidWeightTotal and no write is issued.
C2_InvalidWeightTotal ==
    \A p \in Procs :
        (IsExecute(p) /\ KeysRegistered(p) /\ SumOfTarget(p) # 100)
        => (Done(p) /\ FailedWith(p, InvalidWeightTotal) /\ Writes(p) = <<>>)

C2_Witness ==
    \E p \in Procs :
        /\ Done(p) /\ IsExecute(p) /\ KeysRegistered(p)
        /\ SumOfTarget(p) < 100 /\ SumOfTarget(p) > 0
        /\ FailedWith(p, InvalidWeightTotal)

\* C3: a target with a key outside the service's registered backends fails
\* with InvalidBackend, and the invocation issues no health probe, no
\* configuration read and no write.
C3_InvalidBackend ==
    \A p \in Procs :
        (IsExecute(p) /\ ~KeysRegistered(p))
        => (Done(p) /\ FailedWith(p, InvalidBackend) /\ calls[p] = <<>>)

C3_Witness ==
    \E p \in Procs :
        /\ Done(p) /\ IsExecute(p) /\ ~KeysRegistered(p)
        /\ SumOfTarget(p) = 100
        /\ FailedWith(p, InvalidBackend)

\* C4: when a probe of a backend with weight > 0 answers unhealthy or
\* unreachable, the invocation fails with UnhealthyBackend and issues no
\* write.
C4_UnhealthyBackend ==
    \A p \in Procs :
        (IsExecute(p) /\ ~ProbedHealthy(p))
        => (Done(p) /\ FailedWith(p, UnhealthyBackend) /\ Writes(p) = <<>>)

C4_Witness ==
    \E p \in Procs :
        /\ Done(p) /\ IsExecute(p) /\ FailedWith(p, UnhealthyBackend)
        /\ Len(Probes(p)) = 2
        /\ Probes(p)[1].status = "healthy"
        /\ Probes(p)[2].status = "unhealthy"

\* The list of backends shows exactly the distribution w.
ListShows(backends, w) == Shows([routing |-> [backends |-> backends]], w)

\* C5, as claimed: an otherwise valid execute_failover started less than the
\* cooldown window after the service's last recorded success fails with
\* RateLimited, and one started after the window succeeds.
C5_AsClaimed ==
    \A p \in Procs :
        (Done(p) /\ OtherwiseValid(p) /\ Percentages(p) /\ entry[p].last_failover # 0)
        => IF entry[p].time - entry[p].last_failover < FAILOVER_RATE_LIMIT_SECONDS
           THEN FailedWith(p, RateLimited)
           ELSE RouterCooperates(p) => Succeeded(p)

\* C5, amended: after a recorded success for the service, an execute_failover
\* whose rate-limit check (step 5) runs less than the cooldown window after
\* the recorded time fails with RateLimited before any read or write; one
\* whose check runs once the window has elapsed is not rate limited, and
\* succeeds when the router accepts the write and the re-read shows the
\* target.
C5_RateLimited ==
    \A p \in Procs :
        (IsExecute(p) /\ RateChecks(p) # <<>> /\ entry[p].last_failover # 0)
        => IF RateChecks(p)[1].now - entry[p].last_failover < FAILOVER_RATE_LIMIT_SECONDS
           THEN Done(p) /\ FailedWith(p, RateLimited)
                /\ Reads(p) = <<>> /\ Writes(p) = <<>>
           ELSE /\ ~FailedWith(p, RateLimited)
                /\ (Done(p) /\ RouterCooperates(p)) => Succeeded(p)

C5_Witness ==
    \E p \in Procs :
        /\ Done(p) /\ OtherwiseValid(p) /\ FailedWith(p, RateLimited)
        /\ last_call.op = "execute_failover" /\ last_call.success
        /\ last_call.service = service[p]
        /\ _failover_history[service[p]] = entry[p].last_failover

\* The second case of C5 is reached too: a success once the window elapsed.
C5_WitnessElapsed ==
    \E p \in Procs :
        /\ Done(p) /\ Succeeded(p) /\ IsExecute(p)
        /\ entry[p].last_failover # 0
        /\ entry[p].time - entry[p].last_failover >= FAILOVER_RATE_LIMIT_SECONDS

\* C6, as claimed: when the re-read after the write does not show the target,
\* the invocation issues a second write carrying the weights of the snapshot
\* it took and fails with VerificationFailed.
C6_AsClaimed ==
    \A p \in Procs :
        (Done(p) /\ IsExecute(p) /\ Percentages(p) /\ Len(Reads(p)) >= 2
            /\ "routing" \in DOMAIN Reads(p)[1].ret
            /\ ~Shows(Reads(p)[2].ret, backend_weights[p]))
        => /\ FailedWith(p, VerificationFailed)
           /\ Len(Writes(p)) = 2
           /\ Writes(p)[2].weights = extract_weights_from_config(Reads(p)[1].ret)

\* C6 on the re-reads that return a configuration document: the property
\* holds there; it fails only when the re-read returns the error object.
C6_OnDocuments ==
    \A p \in Procs :
        (Done(p) /\ IsExecute(p) /\ Len(Reads(p)) >= 2
            /\ "routing" \in DOMAIN Reads(p)[2].ret
            /\ ~Shows(Reads(p)[2].ret, backend_weights[p]))
        => /\ FailedWith(p, VerificationFailed)
           /\ Len(Writes(p)) = 2
           /\ Writes(p)[2].weights = extract_weights_from_config(Reads(p)[1].ret)

\* C7, as claimed: after a successful execute_failover for a service,
\* rollback_failover writes exactly the distribution the control plane held
\* immediately before that failover.
C7_AsClaimed ==
    \A p \in Procs :
        (Done(p) /\ IsRollback(p) /\ last_call.op = "execute_failover"
            /\ last_call.success /\ last_call.service = service[p]
            /\ \A u \in DOMAIN last_call.weights : last_call.weights[u] \in 0..100)
        => /\ Len(Writes(p)) = 1
           /\ ListShows(last_call.backends, Writes(p)[1].weights)

\* C7 where the snapshot the failover stored is a configuration document: the
\* property holds there; it fails only when the snapshot read returned the
\* error object, which execute_failover stores unchecked.
C7_OnDocuments ==
    \A p \in Procs :
        (Done(p) /\ IsRollback(p) /\ last_call.op = "execute_failover"
            /\ last_call.success /\ last_call.service = service[p]
            /\ "routing" \in DOMAIN _rollback_configs[service[p]])
        => /\ Len(Writes(p)) = 1
           /\ ListShows(last_call.backends, Writes(p)[1].weights)

\* C8: rollback_failover of a service without a stored snapshot fails with
\* NoRollbackAvailable, issues no write, and leaves the control plane and the
\* state store unchanged.
C8_NoRollbackAvailable ==
    [][\A p \in Procs :
         (pc[p] = "idle" /\ op'[p] = "rollback_failover"
             /\ service'[p] \notin DOMAIN _rollback_configs)
         => /\ pc'[p] = "done"
            /\ result'[p] = [success |-> FALSE, error |-> NoRollbackAvailable]
            /\ calls'[p] = <<>>
            /\ router' = router
            /\ _failover_history' = _failover_history
            /\ _rollback_configs' = _rollback_configs]_vars

C8_Witness ==
    \E p \in Procs :
        /\ Done(p) /\ IsRollback(p) /\ FailedWith(p, NoRollbackAvailable)
        /\ service[p] \notin DOMAIN _rollback_configs
        /\ _rollback_configs # EmptyDict

\* C9: an execute_failover that repeats the distribution of the successful
\* execute_failover before it finds that distribution applied, succeeds again
\* when all checks pass, and leaves the control plane as the first call left
\* it.
C9_Idempotent ==
    \A p \in Procs :
        (Done(p) /\ IsExecute(p) /\ last_call.op = "execute_failover"
            /\ last_call.success /\ last_call.service = service[p]
            /\ last_call.weights = backend_weights[p]
            /\ ProbedHealthy(p) /\ OutsideCooldown(p) /\ RouterCooperates(p))
        => /\ ListShows(entry[p].backends, backend_weights[p])
           /\ Succeeded(p)
           /\ router[service[p]] = entry[p].backends

C9_Witness ==
    \E p \in Procs :
        /\ Done(p) /\ IsExecute(p) /\ last_call.op = "execute_failover"
        /\ last_call.success /\ last_call.service = service[p]
        /\ last_call.weights = backend_weights[p]
        /\ Succeeded(p)
        /\ router[service[p]] = entry[p].backends
        /\ router[service[p]] # InitialBackends[service[p]]

\* C10, as claimed: every invocation returns a structured result; no
\* exception escapes.
C10_AsClaimed ==
    \A p \in Procs :
        Done(p) => ("success" \in DOMAIN result[p] /\ "exception" \notin DOMAIN result[p])

\* The distribution a stored snapshot holds: that of its backends list, and
\* the empty one when the snapshot has no routing section.
RestoresSnapshot(snapshot, w) ==
    IF "routing" \in DOMAIN snapshot THEN Shows(snapshot, w) ELSE w = EmptyDict

\* C11: rollback_failover runs no check.  Whenever a snapshot is stored for
\* the service it issues exactly one call to the router, the write of the
\* snapshot's distribution, with no probe and no rate-limit check, also
\* inside the cooldown window, and it changes neither the last failover time
\* nor the stored snapshot of any service.
C11_RollbackUnguarded ==
    [][\A p \in Procs :
        (pc[p] = "idle" /\ op'[p] = "rollback_failover"
            /\ service'[p] \in DOMAIN _rollback_configs)
        => /\ Len(calls'[p]) = 1
           /\ calls'[p][1].fn = "update_backend_weights"
           /\ calls'[p][1].service = service'[p]
           /\ RestoresSnapshot(_rollback_configs[service'[p]], calls'[p][1].weights)
           /\ result'[p].success = calls'[p][1].ret
           /\ _failover_history' = _failover_history
           /\ _rollback_configs' = _rollback_configs]_vars

\* A rollback that restored another distribution than the one in force while
\* the service was inside its cooldown window.
C11_Witness ==
    \E p \in Procs :
        /\ Done(p) /\ IsRollback(p) /\ Succeeded(p)
        /\ Len(Writes(p)) = 1 /\ Probes(p) = <<>> /\ RateChecks(p) = <<>>
        /\ ~ListShows(entry[p].backends, Writes(p)[1].weights)
        /\ entry[p].last_failover # 0
        /\ InCooldown(entry[p].last_failover, entry[p].time)

\* C12, as claimed: every returned result carries the service field; it
\* carries error exactly when success is false, and previous_config,
\* new_config and message exactly when success is true.
C12_AsClaimed ==
    \A p \in Procs :
        (Done(p) /\ "success" \in DOMAIN result[p])
        => /\ "service" \in DOMAIN result[p]
           /\ "error" \in DOMAIN result[p] <=> ~result[p].success
           /\ \A f \in {"previous_config", "new_config", "message"} :
                 f \in DOMAIN result[p] <=> result[p].success

\* C12, on the fields the code does keep to the rule: error is present
\* exactly when success is false, and message exactly when it is true.
C12_ErrorAndMessage ==
    \A p \in Procs :
        (Done(p) /\ "success" \in DOMAIN result[p])
        => /\ "error" \in DOMAIN result[p] <=> ~result[p].success
           /\ "message" \in DOMAIN result[p] <=> result[p].success

\* The configuration read is the error object of a failed transport.
IsErrorObject(config) == "error" \in DOMAIN config

\* C13, as claimed: when the snapshot read returns an error object the
\* invocation ends there with a failure result, without storing the error
\* object as the service's snapshot and without issuing a write.
C13_AsClaimed ==
    \A p \in Procs :
        (IsExecute(p) /\ Len(Reads(p)) >= 1 /\ IsErrorObject(Reads(p)[1].ret))
        => /\ Done(p)
           /\ "error" \in DOMAIN result[p] /\ ~result[p].success
           /\ Writes(p) = <<>>
           /\ Get(_rollback_configs, service[p], EmptyDict) # Reads(p)[1].ret

\* C13, what the code does instead: the error object is stored as the
\* snapshot and the invocation goes on to the write.
C13_ErrorObjectStored ==
    \A p \in Procs :
        (IsExecute(p) /\ Len(Reads(p)) >= 1 /\ IsErrorObject(Reads(p)[1].ret))
        => /\ _rollback_configs[service[p]] = Reads(p)[1].ret
           /\ pc[p] = "apply" \/ Len(Writes(p)) >= 1

\* C14: the last failover time of a service changes only in the step in
\* which an execute_failover for that service returns success, and then to
\* the time of that step; no failing execute_failover and no
\* rollback_failover changes it.
C14_RecordedOnSuccessOnly ==
    [][\A svc \in Services :
        Get(_failover_history', svc, 0) # Get(_failover_history, svc, 0)
        => \E p \in Procs :
              /\ op[p] = "execute_failover" /\ service[p] = svc
              /\ pc[p] # "done" /\ pc'[p] = "done"
              /\ "success" \in DOMAIN result'[p] /\ result'[p].success
              /\ _failover_history'[svc] = clock']_vars

\* An execute_failover that passed the rate-limit check after an earlier
\* success and then failed has left the recorded time where it was.
C14_Witness ==
    \E p \in Procs :
        /\ Done(p) /\ IsExecute(p)
        /\ FailedWith(p, VerificationFailed) \/ FailedWith(p, ApplyFailed)
        /\ entry[p].last_failover # 0
        /\ _failover_history[service[p]] = entry[p].last_failover

\* C15: an execute_failover that has reached the write has read the
\* configuration before it and the service's stored snapshot is what that
\* read returned, already before the write is issued; when the write is
\* refused the invocation ends with ApplyFailed, the snapshot stays stored
\* and no further write is issued.
C15_SnapshotBeforeWrite ==
    \A p \in Procs :
        (IsExecute(p) /\ (pc[p] = "apply" \/ Writes(p) # <<>>))
        => /\ Len(Reads(p)) >= 1
           /\ \A i \in DOMAIN calls[p] :
                 calls[p][i].fn = "update_backend_weights"
                 => \E j \in 1..(i - 1) : calls[p][j].fn = "get_current_configuration"
           /\ service[p] \in DOMAIN _rollback_configs
           /\ _rollback_configs[service[p]] = Reads(p)[1].ret
           /\ (Writes(p) # <<>> /\ ~Writes(p)[1].ret)
              => (Done(p) /\ FailedWith(p, ApplyFailed) /\ Len(Writes(p)) = 1)

\* A refused write in an attempt whose snapshot is not the initial
\* configuration.
C15_Witness ==
    \E p \in Procs :
        /\ Done(p) /\ IsExecute(p) /\ FailedWith(p, ApplyFailed)
        /\ Len(Writes(p)) = 1 /\ Len(Reads(p)) = 1
        /\ _rollback_configs[service[p]] = Reads(p)[1].ret
        /\ "routing" \in DOMAIN Reads(p)[1].ret
        /\ Reads(p)[1].ret.routing.backends # InitialBackends[service[p]]

\* The reasons of the five checks that come before the snapshot.
CheckAborts ==
    {InvalidBackend, InvalidWeightTotal, UnhealthyBackend, IncompatibleBackend,
     RateLimited}

ReadsIn(cs) == SelectSeq(cs, LAMBDA c : c.fn = "get_current_configuration")
WritesIn(cs) == SelectSeq(cs, LAMBDA c : c.fn = "update_backend_weights")

\* C16: every step of an execute_failover up to and including the rate-limit
\* check leaves the control plane, the recorded failover times and the stored
\* snapshots of all services unchanged, and an invocation that ends with the
\* reason of one of the five checks has taken only such steps: it has read
\* and written no configuration.  An invocation that has issued a second
\* write has ended with VerificationFailed.
C16_ChecksWithoutEffect ==
    [][\A p \in Procs :
        /\ (/\ op'[p] = "execute_failover"
            /\ pc[p] \in {"idle", "health", "ratelimit"}
            /\ pc'[p] # pc[p] \/ calls'[p] # calls[p])
           => /\ router' = router
              /\ _failover_history' = _failover_history
              /\ _rollback_configs' = _rollback_configs
        /\ (/\ op'[p] = "execute_failover"
            /\ pc[p] # "done" /\ pc'[p] = "done"
            /\ "error" \in DOMAIN result'[p]
            /\ result'[p].error \in CheckAborts)
           => /\ pc[p] \in {"idle", "health", "ratelimit"}
              /\ ReadsIn(calls'[p]) = <<>>
              /\ WritesIn(calls'[p]) = <<>>
        /\ (op'[p] = "execute_failover" /\ Len(WritesIn(calls'[p])) >= 2)
           => /\ pc'[p] = "done"
              /\ "error" \in DOMAIN result'[p]
              /\ result'[p].error = VerificationFailed
              /\ Len(WritesIn(calls'[p])) = 2]_vars

\* A rate-limited attempt for a service that has a snapshot and a recorded
\* failover time.
C16_Witness ==
    \E p \in Procs :
        /\ Done(p) /\ IsExecute(p) /\ FailedWith(p, RateLimited)
        /\ Len(Probes(p)) >= 1 /\ Reads(p) = <<>> /\ Writes(p) = <<>>
        /\ service[p] \in DOMAIN _rollback_configs
        /\ _failover_history[service[p]] = entry[p].last_failover
        /\ router[service[p]] = entry[p].backends
        /\ router[service[p]] # InitialBackends[service[p]]

\* An attempt that issued the corrective write.
C16_WitnessSecondWrite ==
    \E p \in Procs :
        /\ Done(p) /\ IsExecute(p) /\ FailedWith(p, VerificationFailed)
        /\ Len(Writes(p)) = 2

\* C17: the checks run in the order backend validity, weight sum, health,
\* compatibility, rate limit, and the first that fails gives the reason: an
\* unregistered key gives InvalidBackend whatever the total; with registered
\* keys a wrong total gives InvalidWeightTotal before any probe; an unhealthy
\* probe gives UnhealthyBackend before the rate-limit check is made, also
\* inside the cooldown window; RateLimited is only given after every backend
\* to probe answered healthy.
C17_FirstFailingCheck ==
    \A p \in Procs :
        (Done(p) /\ IsExecute(p))
        => /\ ~KeysRegistered(p) => FailedWith(p, InvalidBackend)
           /\ (KeysRegistered(p) /\ SumOfTarget(p) # 100)
              => (FailedWith(p, InvalidWeightTotal) /\ Probes(p) = <<>>)
           /\ (KeysRegistered(p) /\ SumOfTarget(p) = 100 /\ ~ProbedHealthy(p))
              => (FailedWith(p, UnhealthyBackend) /\ RateChecks(p) = <<>>)
           /\ FailedWith(p, RateLimited)
              => /\ KeysRegistered(p) /\ SumOfTarget(p) = 100 /\ ProbedHealthy(p)
                 /\ Len(Probes(p)) = Cardinality({u \in DOMAIN backend_weights[p] :
                                                     backend_weights[p][u] > 0})
                 /\ Reads(p) = <<>>

\* An unhealthy target inside the cooldown window.
C17_Witness ==
    \E p \in Procs :
        /\ Done(p) /\ IsExecute(p) /\ FailedWith(p, UnhealthyBackend)
        /\ entry[p].last_failover # 0
        /\ InCooldown(entry[p].last_failover, clock)
        /\ RateChecks(p) = <<>>

\* An unregistered backend together with a wrong total.
C17_WitnessInvalidAndWrongSum ==
    \E p \in Procs :
        /\ Done(p) /\ IsExecute(p) /\ FailedWith(p, InvalidBackend)
        /\ ~KeysRegistered(p) /\ SumOfTarget(p) # 100

\* The invocation has issued its write and has not returned yet.
BetweenWriteAndCompletion(p) ==
    IsExecute(p) /\ pc[p] \in {"verify", "auto_rollback"}

\* C18: invocations for one service are not mutually excluded.  While an
\* execute_failover is between its write and its completion, a caller that
\* may call at all can start another execute_failover for the same service,
\* and an execute_failover for the same service that stands at its snapshot
\* step can take it: the step replaces the stored snapshot by what the
\* router holds now.
C18_NotExcluded ==
    \A p, q \in Procs :
        (p # q /\ BetweenWriteAndCompletion(p))
        => /\ (/\ pc[q] = "idle"
               /\ \A r \in Procs : r < q => pc[r] # "idle"
               /\ ncalls < MaxCalls)
              => \A weights \in {w \in ConcurrentTargets :
                                    DOMAIN w = Registry[service[p]]} :
                    ENABLED ExecuteFailover(q, service[p], weights)
           /\ (IsExecute(q) /\ pc[q] = "snapshot" /\ service[q] = service[p])
              => ENABLED (/\ Snapshot(q, TRUE)
                          /\ _rollback_configs'[service[p]] =
                                [routing |-> [backends |-> router[service[p]]]])

\* The interleaving of the claim: the first invocation is still between its
\* write and its completion, the stored snapshot is no longer the one it
\* took, and a rollback_failover has restored the distribution the first
\* invocation wrote instead of the one that preceded it.
C18_Witness ==
    \E p, q \in Procs :
        /\ p # q /\ BetweenWriteAndCompletion(p)
        /\ Done(q) /\ IsRollback(q) /\ Succeeded(q) /\ service[q] = service[p]
        /\ _rollback_configs[service[p]] # current_config[p]
        /\ Writes(q)[1].weights = backend_weights[p]
        /\ ~ListShows(entry[p].backends, backend_weights[p])
        /\ ListShows(router[service[p]], backend_weights[p])

\* The overwrite itself: the second invocation has just taken its snapshot
\* while the first is between its write and its completion.
C18_WitnessOverwrite ==
    \E p, q \in Procs :
        /\ p # q /\ BetweenWriteAndCompletion(p)
        /\ IsExecute(q) /\ pc[q] = "apply" /\ service[q] = service[p]
        /\ _rollback_configs[service[p]] = current_config[q]
        /\ current_config[q] # current_config[p]
        /\ Shows(current_config[q], backend_weights[p])

\* C19, as claimed: when an execute_failover returns success, the success
\* recorded before it for the service, if any, lies at least the cooldown
\* window back, also when invocations overlap.
C19_AsClaimed ==
    [][\A p \in Procs :
        (/\ op[p] = "execute_failover"
         /\ pc[p] # "done" /\ pc'[p] = "done"
         /\ "success" \in DOMAIN result'[p] /\ result'[p].success)
        => LET last_failover == Get(_failover_history, service[p], 0)
           IN  \/ last_failover = 0
               \/ _failover_history'[service[p]] - last_failover
                    >= FAILOVER_RATE_LIMIT_SECONDS]_vars

\* Two successes for one service, the second recorded inside the cooldown
\* window of the first: both passed the rate-limit check before either was
\* recorded.
C19_TwoSuccessesInWindow ==
    \E p, q \in Procs :
        /\ p # q /\ service[p] = service[q]
        /\ Done(p) /\ IsExecute(p) /\ Succeeded(p)
        /\ Done(q) /\ IsExecute(q) /\ Succeeded(q)
        /\ RateChecks(p)[1].ret = 0 /\ RateChecks(q)[1].ret = 0

\* The step is one of invocation p.
StepOf(p) == pc'[p] # pc[p] \/ calls'[p] # calls[p]

\* The service the stepping invocation works for.
ServiceOf(p) == IF pc[p] = "idle" THEN service'[p] ELSE service[p]

\* C20: every step of an invocation for one service, under any interleaving
\* with invocations for the other service, leaves the other service's
\* configuration, failover time and snapshot as they were, and every call it
\* makes names its own service and returns that service's record: the
\* failover time read is the service's own and the configuration read is the
\* service's own.
C20_ServicesIndependent ==
    [][\A p \in Procs :
        StepOf(p)
        => /\ \A t \in Services \ {ServiceOf(p)} :
                 /\ router'[t] = router[t]
                 /\ Get(_failover_history', t, 0) = Get(_failover_history, t, 0)
                 /\ t \in DOMAIN _rollback_configs' <=> t \in DOMAIN _rollback_configs
                 /\ Get(_rollback_configs', t, EmptyDict) = Get(_rollback_configs, t, EmptyDict)
           /\ Len(calls'[p]) = Len(calls[p]) + 1
              => LET c == calls'[p][Len(calls'[p])]
                 IN  /\ "service" \in DOMAIN c => c.service = ServiceOf(p)
                     /\ c.fn = "get_last_failover_time"
                        => c.ret = Get(_failover_history, ServiceOf(p), 0)
                     /\ c.fn = "get_current_configuration"
                        => c.ret = [routing |-> [backends |-> router[ServiceOf(p)]]]
                     /\ c.fn = "check_backend_health"
                        => c.url \in Registry[ServiceOf(p)]]_vars

\* Invocations for two services that overlapped: the second started before
\* the first recorded its success, made its rate-limit check after it, found
\* no failover time of its own and succeeded too.
C20_Witness ==
    \E p, q \in Procs :
        /\ p # q /\ service[p] # service[q]
        /\ Done(p) /\ IsExecute(p) /\ Succeeded(p)
        /\ Done(q) /\ IsExecute(q) /\ Succeeded(q)
        /\ entry[q].time < _failover_history[service[p]]
        /\ RateChecks(q)[1].now >= _failover_history[service[p]]
        /\ RateChecks(q)[1].ret = 0

\* C21: an execute_failover that issued the automatic rollback write returns
\* one and the same result, the VerificationFailed failure, whether the
\* router accepted that write or refused it.
C21_RollbackOutcomeIgnored ==
    \A p \in Procs :
        (IsExecute(p) /\ Len(Writes(p)) = 2)
        => /\ Done(p)
           /\ result[p] = [success |-> FALSE, error |-> VerificationFailed]

\* The rollback write was refused, the control plane does not hold the
\* target, and the result says the automatic rollback was executed.
C21_Witness ==
    \E p \in Procs :
        /\ Done(p) /\ IsExecute(p) /\ Len(Writes(p)) = 2
        /\ Writes(p)[1].ret /\ ~Writes(p)[2].ret
        /\ FailedWith(p, VerificationFailed)
        /\ ~ListShows(router[service[p]], backend_weights[p])

\* The refused rollback leaves the control plane with a configuration that is
\* neither the target nor the distribution the rollback tried to write.
C21_WitnessNeitherTargetNorSnapshot ==
    \E p \in Procs :
        /\ Done(p) /\ IsExecute(p) /\ Len(Writes(p)) = 2
        /\ Writes(p)[1].ret /\ ~Writes(p)[2].ret
        /\ FailedWith(p, VerificationFailed)
        /\ ~ListShows(router[service[p]], backend_weights[p])
        /\ ~ListShows(router[service[p]], Writes(p)[2].weights)

\* The calls of one execute_failover after its probes, in the order of the
\* pipeline.
PipelineCalls ==
    <<"get_last_failover_time", "get_current_configuration", "update_backend_weights",
      "get_current_configuration", "update_backend_weights">>

\* The position in the pipeline that an invocation with this many calls
\* after its probes stands at or, having ended there, has reached.
StagesAfter(n) ==
    CASE n = 0 -> {"health", "ratelimit", "done"}
      [] n = 1 -> {"snapshot", "done"}
      [] n = 2 -> {"apply"}
      [] n = 3 -> {"verify", "done"}
      [] n = 4 -> {"auto_rollback", "done"}
      [] OTHER -> {"done"}

\* C22: the calls an execute_failover has made are probes of distinct
\* backends of positive weight followed by a prefix of the pipeline: one
\* rate-limit check, one snapshot read, one forward write, one re-read, one
\* rollback write.  No call is made twice, and the invocation stands at the
\* stage that follows its last call or has ended there.
C22_ForwardOnly ==
    \A p \in Procs :
        IsExecute(p)
        => LET k == Len(Probes(p))
               n == Len(calls[p]) - k
           IN  /\ \A i \in 1..k : calls[p][i].fn = "check_backend_health"
               /\ \A i, j \in 1..k : calls[p][i].url = calls[p][j].url => i = j
               /\ \A i \in 1..k : backend_weights[p][calls[p][i].url] > 0
               /\ n <= Len(PipelineCalls)
               /\ \A i \in 1..n : calls[p][k + i].fn = PipelineCalls[i]
               /\ pc[p] \in StagesAfter(n)
               /\ Len(Reads(p)) <= 2 /\ Len(Writes(p)) <= 2

\* An invocation that went through the whole pipeline, with two probes.
C22_Witness ==
    \E p \in Procs :
        /\ Done(p) /\ IsExecute(p)
        /\ Len(Probes(p)) = 2 /\ Len(RateChecks(p)) = 1
        /\ Len(Reads(p)) = 2 /\ Len(Writes(p)) = 2

\* The backends of the target that are to receive no traffic.
ZeroWeighted(p) == {u \in DOMAIN backend_weights[p] : backend_weights[p][u] = 0}

\* C23: execute_failover never probes a backend whose target weight is 0, so
\* no answer such a backend would give has a part in the result: a target
\* with registered keys and total 100 whose probed backends are healthy
\* succeeds when the service is outside its cooldown window and the router
\* cooperates.
C23_ZeroWeightExempt ==
    \A p \in Procs :
        IsExecute(p)
        => /\ \A i \in DOMAIN Probes(p) : Probes(p)[i].url \notin ZeroWeighted(p)
           /\ (/\ Done(p) /\ KeysRegistered(p) /\ SumOfTarget(p) = 100
               /\ ZeroWeighted(p) # {}
               /\ ProbedHealthy(p) /\ OutsideCooldown(p) /\ RouterCooperates(p))
              => Succeeded(p)

\* A success whose target has a backend of weight 0: one probe was made, of
\* the other backend.
C23_Witness ==
    \E p \in Procs :
        /\ Done(p) /\ IsExecute(p) /\ Succeeded(p)
        /\ ZeroWeighted(p) # {}
        /\ Len(Probes(p)) = 1
        /\ Cardinality(DOMAIN backend_weights[p]) = 2

\* C24, as claimed: the distribution of every forward write has all its keys
\* registered for the service, every weight between 0 and 100, and total
\* 100.
C24_AsClaimed ==
    \A p \in Procs :
        (IsExecute(p) /\ Writes(p) # <<>>)
        => LET w == Writes(p)[1].weights
           IN  /\ DOMAIN w \subseteq Registry[service[p]]
               /\ \A u \in DOMAIN w : w[u] \in 0..100
               /\ SumOver(w, DOMAIN w) = 100

\* C24, what the code does ensure of a forward write: registered keys and
\* total 100, and it is the target the caller passed.
C24_KeysAndTotal ==
    \A p \in Procs :
        (IsExecute(p) /\ Writes(p) # <<>>)
        => LET w == Writes(p)[1].weights
           IN  /\ w = backend_weights[p]
               /\ DOMAIN w \subseteq Registry[service[p]]
               /\ SumOver(w, DOMAIN w) = 100

\* The configuration is last-known-good: a document whose backend list is
\* not empty and whose weights sum to 100.
LastKnownGood(config) ==
    /\ "routing" \in DOMAIN config
    /\ config.routing.backends # <<>>
    /\ LET w == WeightDict(config.routing.backends)
       IN  SumOver(w, DOMAIN w) = 100

\* C25, as claimed: the snapshot stored for a service is always a
\* last-known-good configuration.
C25_AsClaimed ==
    \A svc \in DOMAIN _rollback_configs : LastKnownGood(_rollback_configs[svc])

\* C25, what the code does keep: the stored snapshot is either the error
\* object of a failed read or a document the router held.
C25_ErrorObjectOrDocument ==
    \A svc \in DOMAIN _rollback_configs :
        \/ IsErrorObject(_rollback_configs[svc])
        \/ /\ "routing" \in DOMAIN _rollback_configs[svc]
           /\ LET bs == _rollback_configs[svc].routing.backends
              IN  \/ bs = InitialBackends[svc]
                  \/ \E w \in TargetWeights \cup ConcurrentTargets : bs = BackendList(w)

\* The invocation follows a successful rollback_failover for the same
\* service, whose write the control plane applied.
RepeatsRollback(p) ==
    /\ IsRollback(p)
    /\ last_call.op = "rollback_failover" /\ last_call.success
    /\ last_call.service = service[p]
    /\ ListShows(entry[p].backends, last_call.weights)

\* C26: a rollback_failover that directly follows a successful
\* rollback_failover for the same service finds the snapshot still stored,
\* writes the same distribution again, returns it when the router accepts the
\* write, and leaves the control plane as the first call left it.
C26_RollbackRepeatable ==
    \A p \in Procs :
        (Done(p) /\ RepeatsRollback(p))
        => /\ service[p] \in DOMAIN _rollback_configs
           /\ Len(Writes(p)) = 1
           /\ Writes(p)[1].weights = last_call.weights
           /\ Writes(p)[1].ret
              => (Succeeded(p) /\ result[p].configuration = last_call.weights)
           /\ router[service[p]] = entry[p].backends

\* A second successful rollback in a row, of a snapshot that is a real
\* configuration, after a failover had succeeded.
C26_Witness ==
    \E p \in Procs :
        /\ Done(p) /\ RepeatsRollback(p) /\ Succeeded(p)
        /\ result[p].configuration = last_call.weights
        /\ LastKnownGood(_rollback_configs[service[p]])
        /\ _failover_history # EmptyDict

\* The invocation is running.
Running(p) == pc[p] \notin {"idle", "done"}

\* C27, as claimed: every running invocation eventually returns a result.
C27_AsClaimed ==
    \A p \in Procs :
        Running(p) ~> (Done(p) /\ "success" \in DOMAIN result[p])

\* C27, what the code does ensure: every running invocation eventually ends,
\* with a result or with the exception of the failed re-read.
C27_Ends ==
    \A p \in Procs : Running(p) ~> Done(p)

====
